---------------------------- MODULE Spec2Model ----------------------------
(***************************************************************************)
(* Resume screening app: a Streamlit script (app.py) that saves an         *)
(* uploaded resume to a temporary file, extracts its text                  *)
(* (extract_text.py), decodes an uploaded job description, sends both to a *)
(* hosted model (resume_screening.py) and displays the JSON it answers.    *)
(*                                                                         *)
(* Text is a sequence of Unicode code points, bytes are a sequence of      *)
(* 0..255.  The model's answer is a sequence of tokens (see Tok).          *)
(***************************************************************************)
EXTENDS Integers, Sequences, FiniteSets, TLC

VARIABLES
    secrets_key,      \* GEMINI_API_KEY in st.secrets: "absent", "empty", "set"
    env_key,          \* GEMINI_API_KEY in the environment: same values
    cache,            \* st.cache_resource of load_model: "unset", "none", "model"
    resume_file,      \* value of the resume uploader (NoUpload or an upload)
    jd_file,          \* value of the job-description uploader
    widgets_shown,    \* the last script run rendered the uploaders and the button
    clicked,          \* st.button("Evaluate Resume") of the current script run
    pc,               \* position of the running script ("idle": waiting for the user)
    fs,               \* temporary directory: set of [path, file]
    tmp_resume_path,  \* local of the handler
    resume_text,      \* local of the handler
    jd_text,          \* local of the handler (NoneText: None)
    result_text,      \* local of the handler
    log               \* what the current script run did: st.* output and external calls

vars == <<secrets_key, env_key, cache, resume_file, jd_file, widgets_shown,
          clicked, pc, fs, tmp_resume_path, resume_text, jd_text, result_text, log>>

---------------------------------------------------------------------------
(* Bounds *)

MaxParts == 2
MaxJdLen == 2
MaxLeaked == 1

---------------------------------------------------------------------------
(* Python str helpers *)

\* None, and a local not yet bound
NoneText == <<-1>>

\* the code points str.isspace() holds of, which str.strip() removes
PyWhitespace ==
    (9..13) \cup (28..32) \cup {133, 160, 5760, 8232, 8233, 8239, 8287, 12288}
        \cup (8192..8202)

RECURSIVE LStrip(_, _)
LStrip(s, ws) ==
    IF s = <<>> THEN <<>>
    ELSE IF Head(s) \in ws THEN LStrip(Tail(s), ws) ELSE s

RECURSIVE RStrip(_, _)
RStrip(s, ws) ==
    IF s = <<>> THEN <<>>
    ELSE IF s[Len(s)] \in ws THEN RStrip(SubSeq(s, 1, Len(s) - 1), ws) ELSE s

\* str.strip()
Strip(s) == RStrip(LStrip(s, PyWhitespace), PyWhitespace)

\* not s, for a str or None
Falsy(s) == s = <<>> \/ s = NoneText

\* str.replace(old, new): the non-overlapping occurrences, leftmost first
RECURSIVE Replace(_, _, _)
Replace(s, old, new) ==
    IF Len(s) < Len(old) THEN s
    ELSE IF SubSeq(s, 1, Len(old)) = old
    THEN new \o Replace(SubSeq(s, Len(old) + 1, Len(s)), old, new)
    ELSE <<Head(s)>> \o Replace(Tail(s), old, new)

\* str.lower() on the ASCII letters
Lower(s) == [i \in 1..Len(s) |-> IF s[i] \in 65..90 THEN s[i] + 32 ELSE s[i]]

\* str.endswith(suffix)
EndsWith(s, suffix) ==
    /\ Len(s) >= Len(suffix)
    /\ SubSeq(s, Len(s) - Len(suffix) + 1, Len(s)) = suffix

\* sep.join(parts)
RECURSIVE Join(_, _)
Join(parts, sep) ==
    IF parts = <<>> THEN <<>>
    ELSE IF Len(parts) = 1 THEN parts[1]
    ELSE parts[1] \o sep \o Join(Tail(parts), sep)

\* all sequences over S of length at most n
RECURSIVE SeqsUpTo(_, _)
SeqsUpTo(S, n) ==
    IF n = 0 THEN {<<>>}
    ELSE LET shorter == SeqsUpTo(S, n - 1)
         IN  shorter \cup {Append(s, x) : s \in {t \in shorter : Len(t) = n - 1}, x \in S}

---------------------------------------------------------------------------
(* extract_text.py *)

FileNotFoundMsg == <<70, 105, 108, 101, 32, 110, 111, 116, 32, 102, 111, 117, 110, 100, 46>>
NoTextDocxMsg == <<78, 111, 32, 116, 101, 120, 116, 32, 102, 111, 117, 110, 100, 32, 105, 110, 32, 100, 111, 99, 117, 109, 101, 110, 116, 46>>
NoTextPdfMsg == <<78, 111, 32, 116, 101, 120, 116, 32, 102, 111, 117, 110, 100, 32, 105, 110, 32, 80, 68, 70, 46>>
UnsupportedMsg == <<85, 110, 115, 117, 112, 112, 111, 114, 116, 101, 100, 32, 102, 105, 108, 101, 32, 102, 111, 114, 109, 97, 116, 46, 32, 80, 108, 101, 97, 115, 101, 32, 117, 115, 101, 32, 80, 68, 70, 32, 111, 114, 32, 68, 79, 67, 88, 46>>
ErrorExtractingPrefix == <<69, 114, 114, 111, 114, 32, 101, 120, 116, 114, 97, 99, 116, 105, 110, 103, 32, 116, 101, 120, 116, 58, 32>>
DotDocx == <<46, 100, 111, 99, 120>>
DotPdf == <<46, 112, 100, 102>>

\* A file on disk, as the parsing libraries see it: bad (docx.Document /
\* pypdf.PdfReader / open raises, str(e) = err) or a document whose paragraphs
\* (docx) or pages (pdf) have the texts parts.
PartTexts == {<<>>, <<32>>, <<97>>}
ExcTexts == {<<>>, <<98, 97, 100>>}
GoodFiles(n) == {[bad |-> FALSE, err |-> <<>>, parts |-> p] : p \in SeqsUpTo(PartTexts, n)}
BadFiles == {[bad |-> TRUE, err |-> e, parts |-> <<>>] : e \in ExcTexts}

\* os.path.exists(file_path)
PathExists(file_path, files) == \E f \in files : f.path = file_path
FileAt(file_path, files) == (CHOOSE f \in files : f.path = file_path).file

\* what a call gives back: a value, or an exception (str(e) = exc)
Returned(v) == [raised |-> FALSE, exc |-> <<>>, value |-> v]
Raised(e) == [raised |-> TRUE, exc |-> e, value |-> NoneText]

\* lines 20-22: the non-blank paragraphs joined by "\n"
DocxText(file) == Join(SelectSeq(file.parts, LAMBDA p : Strip(p) # <<>>), <<10>>)

\* lines 27-33: the non-empty page texts joined by "\n"
PdfText(file) == Join(SelectSeq(file.parts, LAMBDA p : p # <<>>), <<10>>)

\* lines 19-37: the body of the try block
ExtractTry(file_path, file) ==
    IF EndsWith(Lower(file_path), DotDocx)
    THEN IF file.bad THEN Raised(file.err)
         ELSE Returned(IF Strip(DocxText(file)) # <<>> THEN DocxText(file)
                       ELSE NoTextDocxMsg)
    ELSE IF EndsWith(Lower(file_path), DotPdf)
    THEN IF file.bad THEN Raised(file.err)
         ELSE Returned(IF Strip(PdfText(file)) # <<>> THEN PdfText(file)
                       ELSE NoTextPdfMsg)
    ELSE Returned(UnsupportedMsg)

\* the function without its except clause
extract_text_no_except(file_path, files) ==
    IF ~PathExists(file_path, files) THEN Returned(FileNotFoundMsg)
    ELSE ExtractTry(file_path, FileAt(file_path, files))

extract_text_from_file(file_path, files) ==
    IF ~PathExists(file_path, files) THEN Returned(FileNotFoundMsg)
    ELSE LET r == ExtractTry(file_path, FileAt(file_path, files))
         IN  IF r.raised THEN Returned(ErrorExtractingPrefix \o r.exc) ELSE r

---------------------------------------------------------------------------
(* bytes.decode(encoding), and the str.encode(encoding) that made the bytes *)

Decoded(t) == [ok |-> TRUE, text |-> t]
DecodeError == [ok |-> FALSE, text |-> NoneText]

IsCont(x) == x \in 128..191

\* number of bytes of the UTF-8 sequence a lead byte starts (0: no lead byte)
Utf8Len(lead) ==
    IF lead \in 0..127 THEN 1
    ELSE IF lead \in 194..223 THEN 2
    ELSE IF lead \in 224..239 THEN 3
    ELSE IF lead \in 240..244 THEN 4
    ELSE 0

\* the second byte's range (no overlong forms, no surrogates, at most U+10FFFF)
SecondOk(lead, second) ==
    IF lead = 224 THEN second \in 160..191
    ELSE IF lead = 237 THEN second \in 128..159
    ELSE IF lead = 240 THEN second \in 144..191
    ELSE IF lead = 244 THEN second \in 128..143
    ELSE IsCont(second)

Utf8Point(b, n) ==
    IF n = 1 THEN b[1]
    ELSE IF n = 2 THEN (b[1] - 192) * 64 + (b[2] - 128)
    ELSE IF n = 3 THEN (b[1] - 224) * 4096 + (b[2] - 128) * 64 + (b[3] - 128)
    ELSE (b[1] - 240) * 262144 + (b[2] - 128) * 4096 + (b[3] - 128) * 64 + (b[4] - 128)

RECURSIVE DecodeUtf8(_)
DecodeUtf8(b) ==
    IF b = <<>> THEN Decoded(<<>>)
    ELSE LET n == Utf8Len(b[1])
         IN  IF \/ n = 0
                \/ Len(b) < n
                \/ n >= 2 /\ ~SecondOk(b[1], b[2])
                \/ \E i \in 3..n : ~IsCont(b[i])
             THEN DecodeError
             ELSE LET rest == DecodeUtf8(SubSeq(b, n + 1, Len(b)))
                  IN  IF rest.ok THEN Decoded(<<Utf8Point(b, n)>> \o rest.text)
                      ELSE DecodeError

\* the UTF-8 byte order mark
Bom == <<239, 187, 191>>

\* utf-8-sig: a leading byte order mark is dropped
DecodeUtf8Sig(b) ==
    IF Len(b) >= 3 /\ SubSeq(b, 1, 3) = Bom THEN DecodeUtf8(SubSeq(b, 4, Len(b)))
    ELSE DecodeUtf8(b)

\* code points of the bytes 0x80..0x9F in cp1252 (-1: undefined)
Cp1252High ==
    <<8364, -1, 8218, 402, 8222, 8230, 8224, 8225, 710, 8240, 352, 8249, 338, -1,
      381, -1, -1, 8216, 8217, 8220, 8221, 8226, 8211, 8212, 732, 8482, 353, 8250,
      339, -1, 382, 376>>

Cp1252Point(x) == IF x \in 128..159 THEN Cp1252High[x - 127] ELSE x

DecodeCp1252(b) ==
    IF \E i \in 1..Len(b) : Cp1252Point(b[i]) = -1 THEN DecodeError
    ELSE Decoded([i \in 1..Len(b) |-> Cp1252Point(b[i])])

DecodeLatin1(b) == Decoded(b)

\* jd_bytes.decode(encoding)
Decode(encoding, b) ==
    CASE encoding = "utf-8" -> DecodeUtf8(b)
      [] encoding = "utf-8-sig" -> DecodeUtf8Sig(b)
      [] encoding \in {"windows-1252", "cp1252"} -> DecodeCp1252(b)
      [] encoding = "iso-8859-1" -> DecodeLatin1(b)

encodings_to_try == <<"utf-8", "utf-8-sig", "windows-1252", "iso-8859-1", "cp1252">>

\* lines 63-70: the text of the first encoding that decodes, None when none does
RECURSIVE TryEncodings(_, _)
TryEncodings(encodings, b) ==
    IF encodings = <<>> THEN NoneText
    ELSE LET d == Decode(Head(encodings), b)
         IN  IF d.ok THEN d.text ELSE TryEncodings(Tail(encodings), b)

\* the encoding the loop stops at ("none" when none decodes)
RECURSIVE EncodingUsed(_, _)
EncodingUsed(encodings, b) ==
    IF encodings = <<>> THEN "none"
    ELSE IF Decode(Head(encodings), b).ok THEN Head(encodings)
    ELSE EncodingUsed(Tail(encodings), b)

Utf8Bytes(c) ==
    IF c < 128 THEN <<c>>
    ELSE IF c < 2048 THEN <<192 + (c \div 64), 128 + (c % 64)>>
    ELSE IF c < 65536
    THEN <<224 + (c \div 4096), 128 + ((c \div 64) % 64), 128 + (c % 64)>>
    ELSE <<240 + (c \div 262144), 128 + ((c \div 4096) % 64),
           128 + ((c \div 64) % 64), 128 + (c % 64)>>

RECURSIVE EncodeUtf8(_)
EncodeUtf8(t) == IF t = <<>> THEN <<>> ELSE Utf8Bytes(Head(t)) \o EncodeUtf8(Tail(t))

Cp1252Byte(c) ==
    IF c \in 0..127 \cup 160..255 THEN c
    ELSE IF \E x \in 128..159 : Cp1252High[x - 127] = c
    THEN CHOOSE x \in 128..159 : Cp1252High[x - 127] = c
    ELSE -1

\* text.encode(encoding): the bytes of a file saved in that encoding
Encodable(encoding, t) ==
    CASE encoding \in {"utf-8", "utf-8-sig"} ->
            \A i \in 1..Len(t) : (0 <= t[i] /\ t[i] <= 55295)
                                      \/ (57344 <= t[i] /\ t[i] <= 1114111)
      [] encoding \in {"windows-1252", "cp1252"} ->
            \A i \in 1..Len(t) : Cp1252Byte(t[i]) # -1
      [] encoding = "iso-8859-1" -> \A i \in 1..Len(t) : t[i] \in 0..255

Encode(encoding, t) ==
    CASE encoding = "utf-8" -> EncodeUtf8(t)
      [] encoding = "utf-8-sig" -> Bom \o EncodeUtf8(t)
      [] encoding \in {"windows-1252", "cp1252"} -> [i \in 1..Len(t) |-> Cp1252Byte(t[i])]
      [] encoding = "iso-8859-1" -> t

---------------------------------------------------------------------------
(* The model's answer and json.loads *)

\* A value of a parsed JSON document's field (and of a displayed element):
\* absent, int n, str items[1], list items, null.
Absent == [kind |-> "absent", n |-> 0, items |-> <<>>]
IntV(n) == [kind |-> "int", n |-> n, items |-> <<>>]
StrV(s) == [kind |-> "str", n |-> 0, items |-> <<s>>]
ListV(items) == [kind |-> "list", n |-> 0, items |-> items]
NullV == [kind |-> "null", n |-> 0, items |-> <<>>]

\* bool(v)
Truthy(v) ==
    CASE v.kind = "int" -> v.n # 0
      [] v.kind = "str" -> v.items[1] # ""
      [] v.kind = "list" -> v.items # <<>>
      [] OTHER -> FALSE

\* "for skill in v" does not raise TypeError
Iterable(v) == v.kind \in {"list", "str"}

\* dict.get(key, default)
Get(field, default) == IF field.kind = "absent" THEN default ELSE field

\* what the answer's fields may hold
ScoreChoices == <<Absent, IntV(85), IntV(0), IntV(100), IntV(150), IntV(-5), StrV("high"), NullV>>
SummaryChoices == <<Absent, StrV("Good fit")>>
MatchedChoices == <<Absent, ListV(<<"python", "sql">>), ListV(<<>>), IntV(5), NullV>>
MissingChoices == <<Absent, ListV(<<"go">>), StrV("go")>>

\* A parsed JSON document: an object with the four fields, or something else.
Object(sc, su, ma, mi) ==
    [kind |-> "object", score |-> sc, summary |-> su, matched_skills |-> ma,
     missing_skills |-> mi]
NonObject(k) ==
    [kind |-> k, score |-> Absent, summary |-> Absent, matched_skills |-> Absent,
     missing_skills |-> Absent]
NonObjectKinds == <<"array", "null", "number", "string">>

NumObjects ==
    Len(ScoreChoices) * Len(SummaryChoices) * Len(MatchedChoices) * Len(MissingChoices)

\* The i-th document.
Document(i) ==
    IF i < NumObjects
    THEN Object(ScoreChoices[(i % Len(ScoreChoices)) + 1],
                SummaryChoices[((i \div Len(ScoreChoices)) % Len(SummaryChoices)) + 1],
                MatchedChoices[((i \div (Len(ScoreChoices) * Len(SummaryChoices)))
                                  % Len(MatchedChoices)) + 1],
                MissingChoices[(i \div (Len(ScoreChoices) * Len(SummaryChoices)
                                          * Len(MatchedChoices))) + 1])
    ELSE NonObject(NonObjectKinds[i - NumObjects + 1])

ObjectIds == 0..(NumObjects - 1)
DocumentIds == 0..(NumObjects + Len(NonObjectKinds) - 1)

\* In a response text the serialisation of document i is the single token
\* -(i + 2): a valid JSON text holding no backtick and no outer whitespace.
\* Every other element of a response text is a code point.
Tok(i) == -(i + 2)
IsTok(c) == c <= -2
DocOf(c) == Document(-c - 2)

Fence == <<96, 96, 96>>
FenceJsonNl == <<96, 96, 96, 106, 115, 111, 110, 10>>
JsonWhitespace == {9, 10, 13, 32}

\* json.loads(s): one JSON value between optional whitespace, else JSONDecodeError
json_loads(s) ==
    LET core == RStrip(LStrip(s, JsonWhitespace), JsonWhitespace)
    IN  IF Len(core) = 1 /\ IsTok(core[1])
        THEN [ok |-> TRUE, doc |-> DocOf(core[1])]
        ELSE [ok |-> FALSE, doc |-> NonObject("null")]

\* line 94
clean_result(text) == Strip(Replace(Replace(text, FenceJsonNl, <<>>), Fence, <<>>))

---------------------------------------------------------------------------
(* resume_screening.py *)

\* lines 14-19: the constructor raises ValueError
KeyMissing(secrets, env) ==
    LET api_key == IF secrets # "absent" THEN secrets ELSE env
    IN  api_key \in {"absent", "empty"}

\* What model.generate_content(prompt) and response.text give: a text, or an
\* exception.
ApiFailure == [ok |-> FALSE, text |-> <<>>]
ApiAnswer(t) == [ok |-> TRUE, text |-> t]

\* what a call of screen_resume did: "" or the exception it raised, whether it
\* called the API, and the value it returned
ScreenResult(exc, called, value) == [raised |-> exc, called |-> called, value |-> value]

\* lines 69-73 with one more attempt after a failure
screen_resume_retry(resume_text_, job_description_text, api) ==
    IF Falsy(resume_text_) \/ Falsy(job_description_text)
    THEN ScreenResult("ValueError", 0, NoneText)
    ELSE IF api.ok THEN ScreenResult("", 1, api.text)
    ELSE ScreenResult("Exception", 2, NoneText)

\* lines 35-73 without the guard of lines 35-36
screen_resume_no_guard(resume_text_, job_description_text, api) ==
    IF api.ok THEN ScreenResult("", 1, api.text)
    ELSE ScreenResult("Exception", 1, NoneText)

\* lines 24-73; called: the number of calls of generate_content
screen_resume(resume_text_, job_description_text, api) ==
    IF Falsy(resume_text_) \/ Falsy(job_description_text)
    THEN ScreenResult("ValueError", 0, NoneText)
    ELSE IF api.ok THEN ScreenResult("", 1, api.text)
    ELSE ScreenResult("Exception", 1, NoneText)

---------------------------------------------------------------------------
(* app.py: what a script run shows and calls *)

Ev(kind) == [kind |-> kind, val |-> Absent]
EvV(kind, val) == [kind |-> kind, val |-> val]

ErrorKinds ==
    {"error_init", "error_load", "error_decode", "error_extract", "error_jd_empty",
     "error_json", "error_noresp", "error_api", "error_files"}

Shown(kind) == \E i \in 1..Len(log) : log[i].kind = kind
ErrorShown == \E i \in 1..Len(log) : log[i].kind \in ErrorKinds
Count(kind) == Cardinality({i \in 1..Len(log) : log[i].kind = kind})

\* the value the element of that kind was given
ValueShown(kind) == log[CHOOSE i \in 1..Len(log) : log[i].kind = kind].val

NoSummary == StrV("No summary available")

\* lines 112-128: one column of skills; TypeError when the value is truthy and
\* cannot be iterated
SkillColumn(field, shown, none) ==
    LET skills == Get(field, ListV(<<>>))
    IN  IF ~Truthy(skills) THEN [events |-> <<Ev(none)>>, raised |-> ""]
        ELSE IF Iterable(skills) THEN [events |-> <<EvV(shown, skills)>>, raised |-> ""]
        ELSE [events |-> <<>>, raised |-> "TypeError"]

\* lines 97-132: the elements shown, and the exception that ended the display
Display(parsed_result) ==
    IF parsed_result.kind # "object"
    THEN [events |-> <<Ev("success")>>, raised |-> "AttributeError"]
    ELSE LET head == <<Ev("success"),
                       EvV("metric", Get(parsed_result.score, IntV(0))),
                       EvV("summary", Get(parsed_result.summary, NoSummary))>>
             matched == SkillColumn(parsed_result.matched_skills, "matched_skills",
                                    "no_matched")
             missing == SkillColumn(parsed_result.missing_skills, "missing_skills",
                                    "no_missing")
         IN  IF matched.raised # "" THEN [events |-> head, raised |-> matched.raised]
             ELSE IF missing.raised # ""
             THEN [events |-> head \o matched.events, raised |-> missing.raised]
             ELSE [events |-> head \o matched.events \o missing.events
                                 \o <<Ev("raw_json")>>,
                   raised |-> ""]

---------------------------------------------------------------------------
(* What the user and the hosted model can supply *)

KeyStates == {"absent", "empty", "set"}

NoResume == [name |-> <<>>, file |-> [bad |-> TRUE, err |-> <<>>, parts |-> <<>>]]
NoJd == [text |-> NoneText, encoding |-> "none", bytes |-> <<>>]

\* "r.pdf", "r.Docx": names the uploader of line 39 accepts
UploadNames == {<<114, 46, 112, 100, 102>>, <<114, 46, 68, 111, 99, 120>>}

\* the resumes of the application runs
AppResumes ==
    {[name |-> n, file |-> f] :
        n \in UploadNames,
        f \in {[bad |-> TRUE, err |-> <<98, 97, 100>>, parts |-> <<>>],
               [bad |-> FALSE, err |-> <<>>, parts |-> <<>>],
               [bad |-> FALSE, err |-> <<>>, parts |-> <<<<32>>>>],
               [bad |-> FALSE, err |-> <<>>, parts |-> <<<<97>>>>]}}

\* a job description: a text saved in one of the encodings
Jd(t, encoding) == [text |-> t, encoding |-> encoding, bytes |-> Encode(encoding, t)]

Encodings == {encodings_to_try[i] : i \in 1..Len(encodings_to_try)}

\* the job descriptions of the application runs: "A" (plain and with a byte
\* order mark), the empty file, a no-break space, "e" acute, and U+0081
AppJds ==
    {Jd(<<65>>, "utf-8"), Jd(<<65>>, "utf-8-sig"), Jd(<<>>, "utf-8"),
     Jd(<<160>>, "cp1252"), Jd(<<233>>, "windows-1252"), Jd(<<129>>, "iso-8859-1")}

\* code points of the job descriptions of the decoding runs
JdAlphabet == {32, 65, 129, 160, 169, 195, 233, 8230, 65279}

AllJds ==
    {Jd(t, e) : <<t, e>> \in {x \in SeqsUpTo(JdAlphabet, MaxJdLen) \X Encodings :
                                 Encodable(x[2], x[1])}}

\* how an answer wraps its document: <<before, after>>
NoFences == <<<<>>, <<>>>>
MarkdownFences ==
    {<<FenceJsonNl, <<10>> \o Fence>>,                         \* ```json\n ... \n```
     <<FenceJsonNl, Fence>>,                                   \* ```json\n ... ```
     <<Fence \o <<10>>, <<10>> \o Fence \o <<10>>>>,           \* ```\n ... \n```\n
     <<Fence \o <<74, 83, 79, 78, 10>>, <<10>> \o Fence>>,     \* ```JSON\n ... \n```
     <<Fence \o <<106, 115, 111, 110, 13, 10>>, <<13, 10>> \o Fence>>}  \* CRLF
Wrap(style, i) == style[1] \o <<Tok(i)>> \o style[2]

\* the answers of the parsing runs
Responses ==
    {Wrap(style, i) : style \in MarkdownFences \cup {NoFences}, i \in DocumentIds}
        \cup {<<>>, <<32>>, <<72, 105>>, <<72, 105, 32, Tok(0)>>, <<Tok(0), Tok(0)>>}

\* the documents of the answers of the application runs
ObjectId(sc, su, ma, mi) ==
    (sc - 1) + Len(ScoreChoices) * ((su - 1) + Len(SummaryChoices)
        * ((ma - 1) + Len(MatchedChoices) * (mi - 1)))
AppDocumentIds ==
    {ObjectId(2, 2, 2, 2), ObjectId(1, 1, 1, 1), ObjectId(5, 2, 3, 2),
     ObjectId(2, 2, 4, 2), NumObjects, NumObjects + 1}

\* the answers of the application runs
AppResponses ==
    {Wrap(NoFences, i) : i \in AppDocumentIds}
        \cup {Wrap(<<FenceJsonNl, <<10>> \o Fence>>, ObjectId(2, 2, 2, 2)),
              Wrap(<<Fence \o <<74, 83, 79, 78, 10>>, <<10>> \o Fence>>,
                   ObjectId(2, 2, 2, 2)),
              <<>>, <<72, 105>>}

AppApiOutcomes == {ApiFailure} \cup {ApiAnswer(t) : t \in AppResponses}

\* the arguments of the direct calls of screen_resume
ArgTexts == {<<>>, <<32>>, <<97>>}

---------------------------------------------------------------------------
(* app.py: the script, one run per user interaction *)

\* os.path.splitext(name)[1] of a name without directories
SplitExt(name) ==
    LET dots == {i \in 1..Len(name) : name[i] = 46}
        last == CHOOSE i \in dots : \A j \in dots : j <= i
    IN  IF dots = {} \/ (\A j \in 1..(last - 1) : name[j] = 46) THEN <<>>
        ELSE SubSeq(name, last, Len(name))

\* "/tmp/tmp": tempfile.NamedTemporaryFile picks a name no file has
TmpPrefix == <<47, 116, 109, 112, 47, 116, 109, 112>>
TmpPath(suffix) == TmpPrefix \o <<48 + Cardinality(fs)>> \o suffix

Init ==
    /\ secrets_key \in KeyStates
    /\ env_key \in KeyStates
    /\ cache = "unset"
    /\ resume_file = NoResume
    /\ jd_file = NoJd
    /\ widgets_shown = FALSE
    /\ clicked = FALSE
    /\ pc \in {"load_model", "main"}
    /\ fs = {}
    /\ tmp_resume_path = NoneText
    /\ resume_text = NoneText
    /\ jd_text = NoneText
    /\ result_text = NoneText
    /\ log = <<>>

\* a user interaction reruns the script from the top
StartRun(button) ==
    /\ pc' = "load_model"
    /\ clicked' = button
    /\ tmp_resume_path' = NoneText
    /\ resume_text' = NoneText
    /\ jd_text' = NoneText
    /\ result_text' = NoneText
    /\ log' = <<>>
    /\ UNCHANGED <<secrets_key, env_key, cache, widgets_shown, fs>>

\* the user reloads the page: a new session, whose widgets are empty
Reload ==
    /\ pc = "idle"
    /\ resume_file' = NoResume
    /\ jd_file' = NoJd
    /\ StartRun(FALSE)

\* line 39: the user picks or clears the resume
UploadResume ==
    /\ pc = "idle" /\ widgets_shown
    /\ \E f \in AppResumes \cup {NoResume} : f # resume_file /\ resume_file' = f
    /\ UNCHANGED jd_file
    /\ StartRun(FALSE)

\* line 42: the user picks or clears the job description
UploadJd ==
    /\ pc = "idle" /\ widgets_shown
    /\ \E f \in AppJds \cup {NoJd} : f # jd_file /\ jd_file' = f
    /\ UNCHANGED resume_file
    /\ StartRun(FALSE)

\* line 45: the user clicks "Evaluate Resume"
ClickEvaluate ==
    /\ pc = "idle" /\ widgets_shown
    /\ UNCHANGED <<resume_file, jd_file>>
    /\ StartRun(TRUE)

\* the key is added to or removed from a store while the app waits
SetKey ==
    /\ pc = "idle"
    /\ \E s \in KeyStates, e \in KeyStates :
          /\ <<s, e>> # <<secrets_key, env_key>>
          /\ secrets_key' = s
          /\ env_key' = e
    /\ UNCHANGED <<cache, resume_file, jd_file, widgets_shown, clicked, pc, fs,
                   tmp_resume_path, resume_text, jd_text, result_text, log>>

\* lines 11-22: load_model, whose result st.cache_resource keeps
LoadModel ==
    /\ pc = "load_model"
    /\ IF cache # "unset" THEN UNCHANGED <<cache, log>>
       ELSE IF KeyMissing(secrets_key, env_key)
       THEN /\ cache' = "none"
            /\ log' = Append(log, Ev("error_init"))
       ELSE /\ cache' = "model"
            /\ UNCHANGED log
    /\ pc' = "check_model"
    /\ UNCHANGED <<secrets_key, env_key, resume_file, jd_file, widgets_shown, clicked,
                   fs, tmp_resume_path, resume_text, jd_text, result_text>>

\* lines 34-42 without st.stop()
CheckModelNoStop ==
    /\ pc = "check_model"
    /\ log' = IF cache = "none" THEN Append(log, Ev("error_load")) ELSE log
    /\ widgets_shown' = TRUE
    /\ pc' = "button"
    /\ UNCHANGED <<secrets_key, env_key, cache, resume_file, jd_file, clicked, fs,
                   tmp_resume_path, resume_text, jd_text, result_text>>

\* lines 34-42: stop without a model, else render the two uploaders
CheckModel ==
    /\ pc = "check_model"
    /\ IF cache = "none"
       THEN /\ log' = Append(log, Ev("error_load"))
            /\ widgets_shown' = FALSE
            /\ pc' = "idle"
       ELSE /\ widgets_shown' = TRUE
            /\ pc' = "button"
            /\ UNCHANGED log
    /\ UNCHANGED <<secrets_key, env_key, cache, resume_file, jd_file, clicked, fs,
                   tmp_resume_path, resume_text, jd_text, result_text>>

\* lines 45-48: the button, and the check that both files are there
Button ==
    /\ pc = "button"
    /\ IF ~clicked
       THEN pc' = "idle" /\ UNCHANGED log
       ELSE IF resume_file = NoResume \/ jd_file = NoJd
       THEN pc' = "idle" /\ log' = Append(log, Ev("warning_upload"))
       ELSE pc' = "tmp" /\ UNCHANGED log
    /\ UNCHANGED <<secrets_key, env_key, cache, resume_file, jd_file, widgets_shown,
                   clicked, fs, tmp_resume_path, resume_text, jd_text, result_text>>

\* lines 51-53 (and 144-145): the resume is written to a new temporary file;
\* the write may raise OSError once the file exists
WriteTmp ==
    /\ pc = "tmp"
    /\ \E written \in BOOLEAN :
          LET path == TmpPath(SplitExt(resume_file.name))
          IN  IF written
              THEN /\ fs' = fs \cup {[path |-> path, file |-> resume_file.file]}
                   /\ tmp_resume_path' = path
                   /\ pc' = "extract"
                   /\ UNCHANGED log
              ELSE /\ Cardinality(fs) < MaxLeaked
                   /\ fs' = fs \cup {[path |-> path,
                                      file |-> [bad |-> TRUE, err |-> <<>>,
                                                parts |-> <<>>]]}
                   /\ log' = Append(log, EvV("error_files", StrV("OSError")))
                   /\ pc' = "idle"
                   /\ UNCHANGED tmp_resume_path
    /\ UNCHANGED <<secrets_key, env_key, cache, resume_file, jd_file, widgets_shown,
                   clicked, resume_text, jd_text, result_text>>

\* line 56 (and 144-145)
Extract ==
    /\ pc = "extract"
    /\ LET r == extract_text_from_file(tmp_resume_path, fs)
       IN  IF r.raised
           THEN /\ log' = log \o <<Ev("call_extract"), EvV("error_files", StrV("Exception"))>>
                /\ pc' = "idle"
                /\ UNCHANGED resume_text
           ELSE /\ log' = Append(log, Ev("call_extract"))
                /\ resume_text' = r.value
                /\ pc' = "decode"
    /\ UNCHANGED <<secrets_key, env_key, cache, resume_file, jd_file, widgets_shown,
                   clicked, fs, tmp_resume_path, jd_text, result_text>>

\* lines 59-74: decode the job description; st.stop() when no encoding decodes
DecodeJd ==
    /\ pc = "decode"
    /\ jd_text' = TryEncodings(encodings_to_try, jd_file.bytes)
    /\ IF jd_text' = NoneText
       THEN log' = Append(log, Ev("error_decode")) /\ pc' = "idle"
       ELSE pc' = "unlink" /\ UNCHANGED log
    /\ UNCHANGED <<secrets_key, env_key, cache, resume_file, jd_file, widgets_shown,
                   clicked, fs, tmp_resume_path, resume_text, result_text>>

\* line 77
Unlink ==
    /\ pc = "unlink"
    /\ fs' = {f \in fs : f.path # tmp_resume_path}
    /\ pc' = "validate"
    /\ UNCHANGED <<secrets_key, env_key, cache, resume_file, jd_file, widgets_shown,
                   clicked, tmp_resume_path, resume_text, jd_text, result_text, log>>

\* lines 80-84
Validate ==
    /\ pc = "validate"
    /\ IF Falsy(resume_text) \/ Strip(resume_text) = <<>>
       THEN log' = Append(log, Ev("error_extract")) /\ pc' = "idle"
       ELSE IF Falsy(jd_text) \/ Strip(jd_text) = <<>>
       THEN log' = Append(log, Ev("error_jd_empty")) /\ pc' = "idle"
       ELSE pc' = "screen" /\ UNCHANGED log
    /\ UNCHANGED <<secrets_key, env_key, cache, resume_file, jd_file, widgets_shown,
                   clicked, fs, tmp_resume_path, resume_text, jd_text, result_text>>

\* the calls of generate_content a call of screen_resume made
ApiCalls(r) == [i \in 1..r.called |-> Ev("call_api")]

\* lines 88 and 141-142: the call of screen_resume
Screen ==
    /\ pc = "screen"
    /\ \E api \in AppApiOutcomes :
          LET r == screen_resume(resume_text, jd_text, api)
          IN  IF r.raised # ""
              THEN /\ log' = log \o ApiCalls(r) \o <<EvV("error_api", StrV(r.raised))>>
                   /\ pc' = "idle"
                   /\ UNCHANGED result_text
              ELSE /\ log' = log \o ApiCalls(r)
                   /\ result_text' = r.value
                   /\ pc' = "parse"
    /\ UNCHANGED <<secrets_key, env_key, cache, resume_file, jd_file, widgets_shown,
                   clicked, fs, tmp_resume_path, resume_text, jd_text>>

\* lines 90-142: clean, parse and display the answer
ParseDisplay ==
    /\ pc = "parse"
    /\ IF Falsy(result_text)
       THEN log' = Append(log, Ev("error_noresp"))
       ELSE LET parsed == json_loads(clean_result(result_text))
                shown == Display(parsed.doc)
            IN  IF ~parsed.ok
                THEN log' = log \o <<Ev("error_json"), Ev("raw_response")>>
                ELSE IF shown.raised # ""
                THEN log' = log \o shown.events
                                \o <<EvV("error_api", StrV(shown.raised))>>
                ELSE log' = log \o shown.events
    /\ pc' = "idle"
    /\ UNCHANGED <<secrets_key, env_key, cache, resume_file, jd_file, widgets_shown,
                   clicked, fs, tmp_resume_path, resume_text, jd_text, result_text>>

\* resume_screening.py lines 76-90, the module run as a script: build the
\* model and call screen_resume; the two arguments range over ArgTexts
MainTest ==
    /\ pc = "main"
    /\ IF KeyMissing(secrets_key, env_key)
       THEN /\ log' = <<EvV("print_error", StrV("ValueError"))>>
            /\ UNCHANGED <<resume_text, jd_text, result_text>>
       ELSE \E sample_resume \in ArgTexts, sample_jd \in ArgTexts,
               api \in AppApiOutcomes :
               LET r == screen_resume(sample_resume, sample_jd, api)
               IN  /\ resume_text' = sample_resume
                   /\ jd_text' = sample_jd
                   /\ result_text' = r.value
                   /\ log' = <<Ev("print_ok")>> \o ApiCalls(r)
                               \o <<IF r.raised # "" THEN EvV("print_error", StrV(r.raised))
                                    ELSE Ev("print_result")>>
    /\ pc' = "main_done"
    /\ UNCHANGED <<secrets_key, env_key, cache, resume_file, jd_file, widgets_shown,
                   clicked, fs, tmp_resume_path>>

Next ==
    \/ Reload \/ UploadResume \/ UploadJd \/ ClickEvaluate \/ SetKey
    \/ LoadModel \/ CheckModel \/ Button
    \/ WriteTmp \/ Extract \/ DecodeJd \/ Unlink \/ Validate \/ Screen \/ ParseDisplay
    \/ MainTest

Spec == Init /\ [][Next]_vars

---------------------------------------------------------------------------
(* extract_text_from_file on arbitrary paths *)

\* "r.pdf", "r.PDF", "r.docx", "r.Docx", "r.txt", "r.pdfx", "rpdf", "r.doc", ".pdf"
ExtractPaths ==
    {<<114, 46, 112, 100, 102>>, <<114, 46, 80, 68, 70>>,
     <<114, 46, 100, 111, 99, 120>>, <<114, 46, 68, 111, 99, 120>>,
     <<114, 46, 116, 120, 116>>, <<114, 46, 112, 100, 102, 120>>,
     <<114, 112, 100, 102>>, <<114, 46, 100, 111, 99>>, <<46, 112, 100, 102>>}

\* the handler about to call extract_text_from_file(tmp_resume_path), on a path
\* that names a file of any content, or no file
InitExtract ==
    /\ secrets_key = "set"
    /\ env_key = "absent"
    /\ cache = "model"
    /\ resume_file = [name |-> <<114, 46, 112, 100, 102>>,
                      file |-> [bad |-> FALSE, err |-> <<>>, parts |-> <<<<97>>>>]]
    /\ jd_file = Jd(<<65>>, "utf-8")
    /\ widgets_shown = TRUE
    /\ clicked = TRUE
    /\ pc = "extract"
    /\ tmp_resume_path \in ExtractPaths
    /\ fs \in {{}, {[path |-> <<120>>, file |-> resume_file.file]}}
            \cup {{[path |-> tmp_resume_path, file |-> f]} :
                     f \in GoodFiles(MaxParts) \cup BadFiles}
    /\ resume_text = NoneText
    /\ jd_text = NoneText
    /\ result_text = NoneText
    /\ log = <<>>

NextExtract == Extract

SpecExtract == InitExtract /\ [][NextExtract]_vars

---------------------------------------------------------------------------
(* the encoding fallback on job descriptions saved in any listed encoding *)

InitDecode ==
    /\ secrets_key = "set"
    /\ env_key = "absent"
    /\ cache = "model"
    /\ resume_file = [name |-> <<114, 46, 112, 100, 102>>,
                      file |-> [bad |-> FALSE, err |-> <<>>, parts |-> <<<<97>>>>]]
    /\ jd_file \in AllJds
    /\ widgets_shown = TRUE
    /\ clicked = TRUE
    /\ pc = "decode"
    /\ tmp_resume_path = TmpPrefix \o <<48>> \o DotPdf
    /\ fs = {[path |-> tmp_resume_path, file |-> resume_file.file]}
    /\ resume_text = <<97>>
    /\ jd_text = NoneText
    /\ result_text = NoneText
    /\ log = <<Ev("call_extract")>>

NextDecode == DecodeJd \/ Unlink \/ Validate

SpecDecode == InitDecode /\ [][NextDecode]_vars

---------------------------------------------------------------------------
(* the post-processing of the answer on any answer *)

InitParse ==
    /\ secrets_key = "set"
    /\ env_key = "absent"
    /\ cache = "model"
    /\ resume_file = [name |-> <<114, 46, 112, 100, 102>>,
                      file |-> [bad |-> FALSE, err |-> <<>>, parts |-> <<<<97>>>>]]
    /\ jd_file = Jd(<<65>>, "utf-8")
    /\ widgets_shown = TRUE
    /\ clicked = TRUE
    /\ pc = "parse"
    /\ tmp_resume_path = TmpPrefix \o <<48>> \o DotPdf
    /\ fs = {}
    /\ resume_text = <<97>>
    /\ jd_text = <<65>>
    /\ result_text \in Responses
    /\ log = <<Ev("call_extract"), Ev("call_api")>>

NextParse == ParseDisplay

SpecParse == InitParse /\ [][NextParse]_vars

---------------------------------------------------------------------------
(* Properties *)

HandlerPcs == {"tmp", "extract", "decode", "unlink", "validate", "screen", "parse"}

\* some paragraph or page of the document holds a character that is not whitespace
HasText(file) ==
    /\ ~file.bad
    /\ \E i \in 1..Len(file.parts) :
          \E j \in 1..Len(file.parts[i]) : file.parts[i][j] \notin PyWhitespace

\* the characters of the document's paragraphs or pages
PartChars(file) ==
    UNION {{file.parts[i][j] : j \in 1..Len(file.parts[i])} : i \in 1..Len(file.parts)}

\* "No text found in "
NoTextFoundIn ==
    <<78, 111, 32, 116, 101, 120, 116, 32, 102, 111, 117, 110, 100, 32, 105, 110, 32>>

\* two characters equal up to the case of an ASCII letter
SameLetter(a, b) ==
    \/ a = b
    \/ a \in 65..90 /\ a + 32 = b
    \/ b \in 65..90 /\ b + 32 = a

\* the path ends with the extension, in any case
HasExtension(path, ext) ==
    /\ Len(path) >= Len(ext)
    /\ \A k \in 1..Len(ext) : SameLetter(path[Len(path) - Len(ext) + k], ext[k])

StartsWith(s, prefix) == Len(s) >= Len(prefix) /\ SubSeq(s, 1, Len(prefix)) = prefix

\* C1: in a run where the extraction of the resume fails or finds no text, an
\* error is shown and the model is never called.
C1_FailedExtractionStopsRun ==
    (/\ resume_file # NoResume
     /\ ~HasText(resume_file.file)
     /\ Shown("call_extract"))
        => /\ ~Shown("call_api")
           /\ pc = "idle" => ErrorShown

\* C2: the temporary file is gone once the text is extracted and the job
\* description decoded, and no temporary file is left when a run has ended.
C2_NoTemporaryFileRemains ==
    pc \in {"idle", "validate", "screen", "parse"} => fs = {}

\* C3: a job description saved in one of the five encodings is decoded to the
\* text that was saved; bytes that no encoding decodes end the run with the
\* decoding error and without a call of the model.
C3_FallbackDecodesSavedText ==
    pc # "decode"
        => /\ jd_text = jd_file.text
           /\ EncodingUsed(encodings_to_try, jd_file.bytes) = "none"
                 => Shown("error_decode") /\ pc = "idle" /\ ~Shown("call_api")

\* the answer is a JSON object, bare or inside one pair of Markdown fences
IsFencedObject(text) ==
    \E style \in MarkdownFences \cup {NoFences}, i \in ObjectIds : text = Wrap(style, i)

\* the object inside the fences
FencedObject(text) ==
    Document(CHOOSE i \in ObjectIds :
                \E style \in MarkdownFences \cup {NoFences} : text = Wrap(style, i))

\* C4: an answer that is a JSON object, bare or in Markdown fences, is parsed
\* and its four fields are displayed, an absent one by its default; it is
\* never reported as a JSON parse failure.
C4_FencedObjectIsDisplayed ==
    (pc = "idle" /\ IsFencedObject(result_text))
        => /\ ~Shown("error_json")
           /\ Shown("metric")
           /\ ValueShown("metric") = Get(FencedObject(result_text).score, IntV(0))
           /\ Shown("summary")
           /\ ValueShown("summary") = Get(FencedObject(result_text).summary, NoSummary)
           /\ Shown("matched_skills") \/ Shown("no_matched")
           /\ Shown("missing_skills") \/ Shown("no_missing")

\* C5: the score shown in the Match Score metric is an integer of 0..100.
C5_ScoreShownIsInRange ==
    Shown("metric")
        => /\ ValueShown("metric").kind = "int"
           /\ ValueShown("metric").n \in 0..100

\* the state the app is in once load_model has returned None
StoppedWithoutModel ==
    /\ ~widgets_shown
    /\ pc \in {"load_model", "check_model", "idle"}
    /\ ~Shown("call_extract")
    /\ ~Shown("call_api")
    /\ fs = {}
    /\ pc = "idle" => Shown("error_load")

\* C6: with the key in neither store the construction raises and load_model
\* returns None; from then on every run shows the error and stops: no uploader
\* is offered, no resume is processed and the model is not called, whatever
\* the stores hold later.
C6_KeyAbsenceIsFatal ==
    /\ [](cache = "none" => StoppedWithoutModel)
    /\ [][/\ (pc = "load_model" /\ cache = "unset" /\ secrets_key = "absent"
                /\ env_key = "absent") => cache' = "none"
          /\ cache = "none" => cache' = "none"]_vars

\* a later run, started with the key now in the environment, has found the
\* cached None
C6_Witness ==
    /\ cache = "none"
    /\ env_key = "set"
    /\ secrets_key = "absent"
    /\ pc = "check_model"
    /\ log = <<>>

\* C7: a run extracts at most once and calls the model at most once, does
\* neither after an error, and ends with the error.
C7_NoRetry ==
    /\ Count("call_extract") <= 1
    /\ Count("call_api") <= 1
    /\ \A i \in 1..Len(log) : \A j \in (i + 1)..Len(log) :
          log[i].kind \in ErrorKinds => log[j].kind \notin {"call_extract", "call_api"}
    /\ (\E i \in 1..Len(log) : log[i].kind \in ErrorKinds \ {"error_init"})
          => pc = "idle"

\* the call of the model failed and the run has ended with that error
C7_Witness ==
    /\ pc = "idle"
    /\ Count("call_extract") = 1
    /\ Count("call_api") = 1
    /\ Shown("error_api")
    /\ ValueShown("error_api") = StrV("Exception")

\* C8: extract_text_from_file does not raise; it returns the text of a
\* document that has text and else a placeholder that is not empty: "File not
\* found." for a path that names no file, the unsupported-format message for
\* an extension other than .pdf and .docx in any case, a "No text found in"
\* message for a document without text, "Error extracting text: " and the
\* library's message when the library raises.
C8_ExtractReturnsTextOrPlaceholder ==
    pc # "extract"
        => /\ pc = "decode"
           /\ ~Shown("error_files")
           /\ resume_text # NoneText
           /\ resume_text # <<>>
           /\ IF ~PathExists(tmp_resume_path, fs)
              THEN resume_text = FileNotFoundMsg
              ELSE LET file == FileAt(tmp_resume_path, fs)
                   IN  IF /\ ~HasExtension(tmp_resume_path, DotPdf)
                          /\ ~HasExtension(tmp_resume_path, DotDocx)
                       THEN resume_text = UnsupportedMsg
                       ELSE IF file.bad
                       THEN resume_text = ErrorExtractingPrefix \o file.err
                       ELSE IF HasText(file)
                       THEN /\ Strip(resume_text) # <<>>
                            /\ \A i \in 1..Len(resume_text) :
                                  resume_text[i] \in PartChars(file) \cup {10}
                            /\ \E i \in 1..Len(resume_text) :
                                  resume_text[i] \notin PyWhitespace
                       ELSE StartsWith(resume_text, NoTextFoundIn)

\* the library raised on an existing file named in upper case
C8_Witness ==
    /\ pc = "decode"
    /\ PathExists(tmp_resume_path, fs)
    /\ tmp_resume_path = <<114, 46, 80, 68, 70>>
    /\ FileAt(tmp_resume_path, fs).bad
    /\ resume_text = ErrorExtractingPrefix \o <<98, 97, 100>>

\* C9: the model is called only with both files uploaded and both texts not
\* blank; with an upload missing the handler only warns and makes no temporary
\* file; screen_resume with an empty argument raises ValueError and does not
\* call the model.
C9_ApiCalledOnlyWithBothTexts ==
    /\ (Shown("call_api") /\ pc # "main_done")
          => /\ resume_file # NoResume /\ jd_file # NoJd
             /\ resume_text # NoneText /\ Strip(resume_text) # <<>>
             /\ jd_text # NoneText /\ Strip(jd_text) # <<>>
    /\ pc \in HandlerPcs => resume_file # NoResume /\ jd_file # NoJd
    /\ (pc = "idle" /\ clicked /\ cache = "model"
          /\ (resume_file = NoResume \/ jd_file = NoJd))
          => log = <<Ev("warning_upload")>> /\ tmp_resume_path = NoneText
    /\ (pc = "main_done" /\ (resume_text = <<>> \/ jd_text = <<>>))
          => log = <<Ev("print_ok"), EvV("print_error", StrV("ValueError"))>>
    /\ (pc = "main_done" /\ Shown("call_api"))
          => resume_text # <<>> /\ jd_text # <<>> /\ resume_text # NoneText

\* screen_resume was called with a resume text and an empty job description
C9_Witness ==
    /\ pc = "main_done"
    /\ resume_text = <<97>>
    /\ jd_text = <<>>
    /\ Shown("print_error")
    /\ ~Shown("call_api")

\* C10: a run never shows both the success message and an error, and shows
\* "Error calling Gemini API" only when the call of the model failed.
C10_SingleOutcome ==
    /\ ~(Shown("success") /\ ErrorShown)
    /\ \A i \in 1..Len(log) :
          log[i].kind = "error_api" => log[i].val = StrV("Exception")

=============================================================================
